---- MODULE Spec2Model ----
(***************************************************************************)
(* Model of the music API (users, songs, favorites) of src/app.            *)
(*                                                                         *)
(* The store is the three tables of src/app/models.py.  Every request is   *)
(* served by a worker with a session of its own (src/app/database.py,      *)
(* get_session); a handler is a sequence of SQL statements, and a handler  *)
(* that reads before it writes is modelled as one step per round trip to   *)
(* the store, so that requests can interleave between the read and the     *)
(* write.  A handler's response stays visible in pc = "done" until the     *)
(* session is closed.                                                      *)
(***************************************************************************)
EXTENDS Integers, Sequences, FiniteSets, TLC

(* ------------------------------ bounds --------------------------------- *)
NWorkers == 2
MaxUsuarios == 2
MaxCanciones == 2
MaxFavoritos == 3
MaxTime == 2
MaxRequests == 5

Workers == 1..NWorkers
Times == 1..MaxTime

(* Request inputs.  Ids range one past the largest id a table can hold, so *)
(* that requests for rows that never existed are issued as well.           *)
UsuarioIds == 1..(MaxUsuarios + 1)
CancionIds == 1..(MaxCanciones + 1)
FavoritoIds == 1..(MaxFavoritos + 1)
Nombres == {"Ana", "Juan Perez"}
Correos == {"ana@x.com", "juan@example.com"}

(* Optional[T]: None is the empty sequence, a value v is <<v>>.            *)
None == << >>
Some(v) == << v >>
Opt(S) == {None} \cup {Some(v) : v \in S}

VARIABLES
    usuario,      \* table usuario: set of rows
    cancion,      \* table cancion: set of rows
    favorito,     \* table favorito: set of rows
    pc,           \* pc[w]: the step worker w is at ("idle", a step, "done")
    req,          \* req[w]: the request worker w serves and what it loaded
    resp,         \* resp[w]: the response of the request, once it is made
    now,          \* the clock read by default_factory=datetime.utcnow
    threadpool,   \* TRUE: requests are served concurrently; FALSE: one at a time
    quota         \* the requests still to be admitted in this run (-1: no limit)

vars == << usuario, cancion, favorito, pc, req, resp, now, threadpool, quota >>
tablas == << usuario, cancion, favorito >>

NoReq == [op |-> "none"]
NoResp == [status |-> 0, body |-> None]
Response(status, body) == [status |-> status, body |-> body]
Error(status) == [status |-> status, body |-> None]

(* ------------------------------ the store ------------------------------ *)
Max(S) == CHOOSE x \in S : \A y \in S : y <= x

(* INTEGER PRIMARY KEY of SQLite (the default database_url): the new rowid *)
(* is one more than the largest rowid in the table.                        *)
NuevoId(tabla) == IF tabla = {} THEN 1 ELSE Max({r.id : r \in tabla}) + 1

(* session.get(Model, id): the row with that primary key, or None.         *)
Get(tabla, id) == IF \E r \in tabla : r.id = id
                  THEN Some(CHOOSE r \in tabla : r.id = id)
                  ELSE None

(* A worker takes a request when it is idle; without the thread pool the   *)
(* requests are served one at a time by a single thread, worker 1.         *)
Admit(w) ==
    /\ pc[w] = "idle"
    /\ threadpool \/ w = 1
    /\ quota # 0
    /\ quota' = IF quota < 0 THEN quota ELSE quota - 1

Finish(w, r) ==
    /\ pc' = [pc EXCEPT ![w] = "done"]
    /\ resp' = [resp EXCEPT ![w] = r]

Goto(w, step) ==
    /\ pc' = [pc EXCEPT ![w] = step]
    /\ resp' = resp

(* ------------------------------ usuarios ------------------------------- *)

(* Mutants: the column is not unique; the correo is compared only when a   *)
(* row is inserted.                                                        *)
CorreoUnicoSinRestriccion(tabla, fila) == TRUE

CorreoUnicoSoloAlInsertar(tabla, fila) ==
    \/ \E r \in tabla : r.id = fila.id
    \/ \A r \in tabla : r.correo # fila.correo

(* unique=True on usuario.correo: no other row holds the correo.           *)
CorreoUnico(tabla, fila) ==
    \A r \in tabla : r.id # fila.id => r.correo # fila.correo

(* POST /api/usuarios: INSERT and commit in one statement; the store       *)
(* rejects a duplicate correo with IntegrityError, which the handler turns *)
(* into 400 after a rollback.                                              *)
crear_usuario(w, nombre, correo) ==
    /\ Admit(w)
    /\ NuevoId(usuario) <= MaxUsuarios
    /\ LET db_usuario == [id |-> NuevoId(usuario), nombre |-> nombre,
                          correo |-> correo, fecha_registro |-> now]
       IN  IF CorreoUnico(usuario, db_usuario)
           THEN /\ usuario' = usuario \cup {db_usuario}
                /\ Finish(w, Response(201, Some(db_usuario)))
           ELSE /\ usuario' = usuario
                /\ Finish(w, Error(400))
    /\ req' = [req EXCEPT ![w] = [op |-> "crear_usuario", nombre |-> nombre,
                                  correo |-> correo]]
    /\ UNCHANGED << cancion, favorito, now, threadpool >>

(* GET /api/usuarios/{usuario_id}                                          *)
obtener_usuario_resp(id) ==
    IF Get(usuario, id) = None THEN Error(404) ELSE Response(200, Get(usuario, id))

obtener_usuario(w, id) ==
    /\ Admit(w)
    /\ Finish(w, obtener_usuario_resp(id))
    /\ req' = [req EXCEPT ![w] = [op |-> "obtener_usuario", id |-> id]]
    /\ UNCHANGED << tablas, now, threadpool >>

(* The request bodies of UsuarioUpdate: model_dump(exclude_unset=True) is  *)
(* a mapping from the supplied fields to their values; a supplied field    *)
(* may be null.                                                            *)
UsuarioUpdates ==
    UNION { [S -> Opt(Nombres \cup Correos)] : S \in SUBSET {"nombre", "correo"} }

UsuarioUpdateValido(u) ==
    /\ "nombre" \in DOMAIN u => u["nombre"] \in Opt(Nombres)
    /\ "correo" \in DOMAIN u => u["correo"] \in Opt(Correos)

(* Mutant: a field that is not supplied is reset.                          *)
SetAttrsReset(obj, data) ==
    [f \in DOMAIN obj |-> IF f \in DOMAIN data THEN data[f]
                          ELSE IF f \in {"album", "nombre"} THEN Some("") ELSE Some(obj[f])]

(* setattr(obj, field, value) for every supplied field.                    *)
SetAttrs(obj, data) ==
    [f \in DOMAIN obj |-> IF f \in DOMAIN data THEN data[f] ELSE Some(obj[f])]

(* Mutant: a supplied correo is not written.                               *)
CambiosSinCorreo(obj, data) == {f \in DOMAIN data : data[f] # Some(obj[f])} \ {"correo"}

(* The columns the flush writes: those whose value differs from the value  *)
(* the session loaded.                                                     *)
Cambios(obj, data) == {f \in DOMAIN data : data[f] # Some(obj[f])}

(* PUT /api/usuarios/{usuario_id}, first statement: session.get.           *)
actualizar_usuario(w, id, usuario_update) ==
    /\ Admit(w)
    /\ UsuarioUpdateValido(usuario_update)
    /\ IF Get(usuario, id) = None
       THEN /\ Finish(w, Error(404))
            /\ req' = [req EXCEPT ![w] = [op |-> "actualizar_usuario", id |-> id,
                                          data |-> usuario_update, obj |-> None]]
       ELSE /\ Goto(w, "actualizar_usuario_commit")
            /\ req' = [req EXCEPT ![w] = [op |-> "actualizar_usuario", id |-> id,
                                          data |-> usuario_update,
                                          obj |-> Get(usuario, id)]]
    /\ UNCHANGED << tablas, now, threadpool >>

(* PUT /api/usuarios/{usuario_id}, commit and refresh.  The UPDATE sets    *)
(* the changed columns of the row with the loaded id:                      *)
(*   - no changed column: no UPDATE; refresh reads the row back, and       *)
(*     raises (500) if it is gone;                                         *)
(*   - the row is gone: StaleDataError, not caught (500);                  *)
(*   - a column set to NULL or a duplicate correo: IntegrityError, caught, *)
(*     rollback, 400.                                                      *)
actualizar_usuario_commit(w) ==
    /\ pc[w] = "actualizar_usuario_commit"
    /\ LET obj == req[w].obj[1]
           data == req[w].data
           cambios == Cambios(obj, data)
           actual == Get(usuario, obj.id)
           valores == SetAttrs(actual[1], [f \in cambios |-> data[f]])
           nueva == [f \in DOMAIN obj |-> valores[f][1]]
       IN  IF actual = None
           THEN /\ usuario' = usuario
                /\ Finish(w, Error(500))
           ELSE IF cambios = {}
           THEN /\ usuario' = usuario
                /\ Finish(w, Response(200, actual))
           ELSE IF \E f \in cambios : data[f] = None
           THEN /\ usuario' = usuario
                /\ Finish(w, Error(400))
           ELSE IF ~CorreoUnico(usuario, nueva)
           THEN /\ usuario' = usuario
                /\ Finish(w, Error(400))
           ELSE /\ usuario' = (usuario \ {actual[1]}) \cup {nueva}
                /\ Finish(w, Response(200, Some(nueva)))
    /\ UNCHANGED << cancion, favorito, req, now, threadpool, quota >>

(* The rows of favorito that reference the user: usuario.favoritos.       *)
FavoritosDeUsuario(id) == {f \in favorito : f.id_usuario = id}

(* The flush of session.delete(parent).  The relationship has no delete    *)
(* cascade, so the unit of work loads the parent's favoritos and detaches  *)
(* each by setting its foreign key to NULL; the column is NOT NULL         *)
(* (id_usuario: int, id_cancion: int), the UPDATE raises IntegrityError    *)
(* and nothing is written.  Without children the parent row is deleted;    *)
(* a DELETE that matches no row is only warned about.                      *)
HijosDesvinculables(hijos) == hijos = {}

(* DELETE /api/usuarios/{usuario_id}, first statement: session.get.        *)
eliminar_usuario(w, id) ==
    /\ Admit(w)
    /\ IF Get(usuario, id) = None
       THEN Finish(w, Error(404))
       ELSE Goto(w, "eliminar_usuario_commit")
    /\ req' = [req EXCEPT ![w] = [op |-> "eliminar_usuario", id |-> id]]
    /\ UNCHANGED << tablas, now, threadpool >>

(* DELETE /api/usuarios/{usuario_id}: session.delete and commit.  The      *)
(* flush first loads usuario.favoritos, a SELECT outside any transaction   *)
(* of the store; with children the IntegrityError is not caught (500) and  *)
(* the session rolls back.                                                 *)
eliminar_usuario_commit(w) ==
    /\ pc[w] = "eliminar_usuario_commit"
    /\ IF HijosDesvinculables(FavoritosDeUsuario(req[w].id))
       THEN Goto(w, "eliminar_usuario_delete")
       ELSE Finish(w, Error(500))
    /\ UNCHANGED << tablas, req, now, threadpool, quota >>

(* The flush then deletes the row of the user and commits.                 *)
eliminar_usuario_delete(w) ==
    /\ pc[w] = "eliminar_usuario_delete"
    /\ usuario' = {r \in usuario : r.id # req[w].id}
    /\ Finish(w, Response(204, None))
    /\ UNCHANGED << cancion, favorito, req, now, threadpool, quota >>

(* ------------------------------ canciones ------------------------------ *)

(* datetime.now().year, read by the validators of año.                     *)
AnioBase == 2024
AnioEnCurso == AnioBase + now

(* CancionBase / CancionUpdate: the field constraints (422 when broken).   *)
LongitudValida(s, min, max) == Len(s) >= min /\ Len(s) <= max
(* Mutant: the upper limit of duracion is inclusive.                       *)
DuracionValidaInclusiva(d) == d > 0 /\ d <= 3600

DuracionValida(d) == d > 0 /\ d < 3600

(* Mutant: the validator of año does not compare with the current year.    *)
AnioValidoSinFuturo(a) == a >= 1900 /\ a <= 2100

AnioValido(a) == a >= 1900 /\ a <= 2100 /\ a <= AnioEnCurso

CampoValido(f, v) ==
    CASE f = "titulo" -> LongitudValida(v, 1, 200)
      [] f = "artista" -> LongitudValida(v, 1, 100)
      [] f = "album" -> LongitudValida(v, 1, 200)
      [] f = "duracion" -> DuracionValida(v)
      [] f = "anio" -> AnioValido(v)
      [] f = "genero" -> LongitudValida(v, 1, 50)

CancionCampos == {"titulo", "artista", "album", "duracion", "anio", "genero"}

CancionCreateValida(c) == \A f \in CancionCampos : CampoValido(f, c[f])

(* Every field of CancionUpdate is optional: null passes the validators.   *)
CancionUpdateValida(data) ==
    \A f \in DOMAIN data : data[f] # None => CampoValido(f, data[f][1])

(* Request bodies: the song of the tests, and bodies the validators        *)
(* reject.                                                                 *)
CancionTest ==
    [titulo |-> "Cancion Test", artista |-> "Artista Test", album |-> "Album Test",
     duracion |-> 240, anio |-> 2020, genero |-> "Rock"]

CancionCreates ==
    { CancionTest,
      [CancionTest EXCEPT !.duracion = 3600],
      [CancionTest EXCEPT !.anio = AnioBase + MaxTime + 1] }

CancionActualizada ==
    [titulo |-> "Cancion Actualizada", artista |-> "Queen",
     album |-> "A Night at the Opera", duracion |-> 355, anio |-> 1975,
     genero |-> "Pop"]

CancionUpdateCampos ==
    { {}, {"titulo"}, {"titulo", "genero"}, {"duracion", "anio"},
      {"artista", "album"}, CancionCampos }

CancionUpdates ==
    { [f \in S |-> Some(CancionActualizada[f])] : S \in CancionUpdateCampos }
    \cup { [f \in {"titulo"} |-> None], [f \in {"duracion"} |-> Some(0)] }

(* POST /api/canciones                                                     *)
crear_cancion(w, c) ==
    /\ Admit(w)
    /\ NuevoId(cancion) <= MaxCanciones
    /\ LET db_cancion == [id |-> NuevoId(cancion), titulo |-> c.titulo,
                          artista |-> c.artista, album |-> c.album,
                          duracion |-> c.duracion, anio |-> c.anio,
                          genero |-> c.genero, fecha_creacion |-> now]
       IN  IF CancionCreateValida(c)
           THEN /\ cancion' = cancion \cup {db_cancion}
                /\ Finish(w, Response(201, Some(db_cancion)))
           ELSE /\ cancion' = cancion
                /\ Finish(w, Error(422))
    /\ req' = [req EXCEPT ![w] = [op |-> "crear_cancion", data |-> c]]
    /\ UNCHANGED << usuario, favorito, now, threadpool >>

(* GET /api/canciones/{cancion_id}                                         *)
obtener_cancion_resp(id) ==
    IF Get(cancion, id) = None THEN Error(404) ELSE Response(200, Get(cancion, id))

obtener_cancion(w, id) ==
    /\ Admit(w)
    /\ Finish(w, obtener_cancion_resp(id))
    /\ req' = [req EXCEPT ![w] = [op |-> "obtener_cancion", id |-> id]]
    /\ UNCHANGED << tablas, now, threadpool >>

(* PUT /api/canciones/{cancion_id}: validation of the body, then the       *)
(* first statement, session.get.                                           *)
actualizar_cancion(w, id, cancion_update) ==
    /\ Admit(w)
    /\ IF ~CancionUpdateValida(cancion_update)
       THEN /\ Finish(w, Error(422))
            /\ req' = [req EXCEPT ![w] = [op |-> "actualizar_cancion", id |-> id,
                                          data |-> cancion_update, obj |-> None]]
       ELSE IF Get(cancion, id) = None
       THEN /\ Finish(w, Error(404))
            /\ req' = [req EXCEPT ![w] = [op |-> "actualizar_cancion", id |-> id,
                                          data |-> cancion_update, obj |-> None]]
       ELSE /\ Goto(w, "actualizar_cancion_commit")
            /\ req' = [req EXCEPT ![w] = [op |-> "actualizar_cancion", id |-> id,
                                          data |-> cancion_update,
                                          obj |-> Get(cancion, id)]]
    /\ UNCHANGED << tablas, now, threadpool >>

(* PUT /api/canciones/{cancion_id}, commit and refresh: as for a user,     *)
(* but the handler catches nothing, so a column set to NULL                *)
(* (IntegrityError) ends the request with 500.                             *)
actualizar_cancion_commit(w) ==
    /\ pc[w] = "actualizar_cancion_commit"
    /\ LET obj == req[w].obj[1]
           data == req[w].data
           cambios == Cambios(obj, data)
           actual == Get(cancion, obj.id)
           valores == SetAttrs(actual[1], [f \in cambios |-> data[f]])
           nueva == [f \in DOMAIN obj |-> valores[f][1]]
       IN  IF actual = None
           THEN /\ cancion' = cancion
                /\ Finish(w, Error(500))
           ELSE IF cambios = {}
           THEN /\ cancion' = cancion
                /\ Finish(w, Response(200, actual))
           ELSE IF \E f \in cambios : data[f] = None
           THEN /\ cancion' = cancion
                /\ Finish(w, Error(500))
           ELSE /\ cancion' = (cancion \ {actual[1]}) \cup {nueva}
                /\ Finish(w, Response(200, Some(nueva)))
    /\ UNCHANGED << usuario, favorito, req, now, threadpool, quota >>

(* The rows of favorito that reference the song: cancion.favoritos.        *)
FavoritosDeCancion(id) == {f \in favorito : f.id_cancion = id}

(* DELETE /api/canciones/{cancion_id}, first statement: session.get.       *)
eliminar_cancion(w, id) ==
    /\ Admit(w)
    /\ IF Get(cancion, id) = None
       THEN Finish(w, Error(404))
       ELSE Goto(w, "eliminar_cancion_commit")
    /\ req' = [req EXCEPT ![w] = [op |-> "eliminar_cancion", id |-> id]]
    /\ UNCHANGED << tablas, now, threadpool >>

(* DELETE /api/canciones/{cancion_id}: session.delete and commit; the      *)
(* flush loads cancion.favoritos first, as for a user.                     *)
eliminar_cancion_commit(w) ==
    /\ pc[w] = "eliminar_cancion_commit"
    /\ IF HijosDesvinculables(FavoritosDeCancion(req[w].id))
       THEN Goto(w, "eliminar_cancion_delete")
       ELSE Finish(w, Error(500))
    /\ UNCHANGED << tablas, req, now, threadpool, quota >>

eliminar_cancion_delete(w) ==
    /\ pc[w] = "eliminar_cancion_delete"
    /\ cancion' = {r \in cancion : r.id # req[w].id}
    /\ Finish(w, Response(204, None))
    /\ UNCHANGED << usuario, favorito, req, now, threadpool, quota >>

(* ------------------------------ favoritos ------------------------------ *)

(* The engine is created without PRAGMA foreign_keys = ON, so SQLite, the  *)
(* default database_url, does not enforce the foreign keys of favorito.    *)
PragmaForeignKeys == FALSE

(* The constraints the store checks when a row of favorito is inserted:    *)
(* the foreign keys, when enforced.  The table declares no unique          *)
(* constraint on (id_usuario, id_cancion).                                 *)
FavoritoConstraints(tabla, fila) ==
    PragmaForeignKeys =>
        /\ Get(usuario, fila.id_usuario) # None
        /\ Get(cancion, fila.id_cancion) # None

(* select(Favorito).where(id_usuario == u, id_cancion == c)                *)
FavoritosDelPar(u, c) == {f \in favorito : f.id_usuario = u /\ f.id_cancion = c}

(* FavoritoRead: the row with its usuario and cancion, each loaded when    *)
(* the response is built and None when the parent row is gone.             *)
FavoritoRead(f) ==
    [id |-> f.id, id_usuario |-> f.id_usuario, id_cancion |-> f.id_cancion,
     fecha_marcado |-> f.fecha_marcado,
     usuario |-> Get(usuario, f.id_usuario), cancion |-> Get(cancion, f.id_cancion)]

(* The steps of the two creation routes, which run the same statements.    *)
(* Mutant: only the body route looks the user up.                          *)
VerificarUsuarioSoloCuerpo(w, op, u, c) ==
    /\ Admit(w)
    /\ IF op = "crear_favorito" /\ Get(usuario, u) = None
       THEN Finish(w, Error(404))
       ELSE Goto(w, op \o "_cancion")
    /\ req' = [req EXCEPT ![w] = [op |-> op, id_usuario |-> u, id_cancion |-> c,
                                  id |-> 0]]
    /\ UNCHANGED << tablas, now, threadpool >>

(* "Verificar que el usuario existe"                                       *)
VerificarUsuario(w, op, u, c) ==
    /\ Admit(w)
    /\ IF Get(usuario, u) = None
       THEN Finish(w, Error(404))
       ELSE Goto(w, op \o "_cancion")
    /\ req' = [req EXCEPT ![w] = [op |-> op, id_usuario |-> u, id_cancion |-> c,
                                  id |-> 0]]
    /\ UNCHANGED << tablas, now, threadpool >>

(* Mutant: the song is not looked up.                                      *)
VerificarCancionOmitida(w, op) ==
    /\ pc[w] = op \o "_cancion"
    /\ Goto(w, op \o "_existente")
    /\ UNCHANGED << tablas, req, now, threadpool, quota >>

(* "Verificar que la canción existe"                                       *)
VerificarCancion(w, op) ==
    /\ pc[w] = op \o "_cancion"
    /\ IF Get(cancion, req[w].id_cancion) = None
       THEN Finish(w, Error(404))
       ELSE Goto(w, op \o "_existente")
    /\ UNCHANGED << tablas, req, now, threadpool, quota >>

(* Mutant: the pair is not looked up before the insert.                    *)
VerificarExistenteOmitido(w, op) ==
    /\ pc[w] = op \o "_existente"
    /\ Goto(w, op \o "_commit")
    /\ UNCHANGED << tablas, req, now, threadpool, quota >>

(* "Verificar que no existe ya este favorito"                              *)
VerificarExistente(w, op) ==
    /\ pc[w] = op \o "_existente"
    /\ IF FavoritosDelPar(req[w].id_usuario, req[w].id_cancion) # {}
       THEN Finish(w, Error(400))
       ELSE Goto(w, op \o "_commit")
    /\ UNCHANGED << tablas, req, now, threadpool, quota >>

(* "Crear el favorito": session.add and commit.  Nothing catches an error  *)
(* of the store (500).                                                     *)
InsertarFavorito(w, op) ==
    /\ pc[w] = op \o "_commit"
    /\ NuevoId(favorito) <= MaxFavoritos
    /\ LET db_favorito == [id |-> NuevoId(favorito),
                           id_usuario |-> req[w].id_usuario,
                           id_cancion |-> req[w].id_cancion,
                           fecha_marcado |-> now]
       IN  IF FavoritoConstraints(favorito, db_favorito)
           THEN /\ favorito' = favorito \cup {db_favorito}
                /\ req' = [req EXCEPT ![w].id = db_favorito.id]
                /\ Goto(w, op \o "_refresh")
           ELSE /\ favorito' = favorito
                /\ req' = req
                /\ Finish(w, Error(500))
    /\ UNCHANGED << usuario, cancion, now, threadpool, quota >>

(* session.refresh(db_favorito) reads the row back and raises (500) when   *)
(* it is gone; the response is then built from the row.                    *)
RefrescarFavorito(w, op) ==
    /\ pc[w] = op \o "_refresh"
    /\ IF Get(favorito, req[w].id) = None
       THEN Finish(w, Error(500))
       ELSE Finish(w, Response(201, Some(FavoritoRead(Get(favorito, req[w].id)[1]))))
    /\ UNCHANGED << tablas, req, now, threadpool, quota >>

(* POST /api/favoritos                                                     *)
crear_favorito(w, u, c) == VerificarUsuario(w, "crear_favorito", u, c)
crear_favorito_cancion(w) == VerificarCancion(w, "crear_favorito")
crear_favorito_existente(w) == VerificarExistente(w, "crear_favorito")
crear_favorito_commit(w) == InsertarFavorito(w, "crear_favorito")
crear_favorito_refresh(w) == RefrescarFavorito(w, "crear_favorito")

(* POST /api/favoritos/{id_usuario}/canciones/{id_cancion}                 *)
marcar_favorito_especifico(w, u, c) ==
    VerificarUsuario(w, "marcar_favorito_especifico", u, c)
marcar_favorito_especifico_cancion(w) ==
    VerificarCancion(w, "marcar_favorito_especifico")
marcar_favorito_especifico_existente(w) ==
    VerificarExistente(w, "marcar_favorito_especifico")
marcar_favorito_especifico_commit(w) ==
    InsertarFavorito(w, "marcar_favorito_especifico")
marcar_favorito_especifico_refresh(w) ==
    RefrescarFavorito(w, "marcar_favorito_especifico")

(* GET /api/favoritos/{favorito_id}                                        *)
obtener_favorito_resp(id) ==
    IF Get(favorito, id) = None
    THEN Error(404)
    ELSE Response(200, Some(FavoritoRead(Get(favorito, id)[1])))

obtener_favorito(w, id) ==
    /\ Admit(w)
    /\ Finish(w, obtener_favorito_resp(id))
    /\ req' = [req EXCEPT ![w] = [op |-> "obtener_favorito", id |-> id]]
    /\ UNCHANGED << tablas, now, threadpool >>

(* DELETE /api/favoritos/{favorito_id}, first statement: session.get.      *)
eliminar_favorito(w, id) ==
    /\ Admit(w)
    /\ IF Get(favorito, id) = None
       THEN Finish(w, Error(404))
       ELSE Goto(w, "eliminar_favorito_commit")
    /\ req' = [req EXCEPT ![w] = [op |-> "eliminar_favorito", id |-> id]]
    /\ UNCHANGED << tablas, now, threadpool >>

(* Mutant: the row is not deleted.                                         *)
eliminar_favorito_sin_borrar(w) ==
    /\ pc[w] = "eliminar_favorito_commit"
    /\ Finish(w, Response(204, None))
    /\ UNCHANGED << tablas, req, now, threadpool, quota >>

(* DELETE /api/favoritos/{favorito_id}: session.delete and commit.         *)
eliminar_favorito_commit(w) ==
    /\ pc[w] = "eliminar_favorito_commit"
    /\ favorito' = {f \in favorito : f.id # req[w].id}
    /\ Finish(w, Response(204, None))
    /\ UNCHANGED << usuario, cancion, req, now, threadpool, quota >>

(* DELETE /api/favoritos/{id_usuario}/canciones/{id_cancion}: first() of   *)
(* the rows of the pair, in no stated order.                               *)
eliminar_favorito_especifico(w, u, c) ==
    /\ Admit(w)
    /\ IF FavoritosDelPar(u, c) = {}
       THEN /\ Finish(w, Error(404))
            /\ req' = [req EXCEPT ![w] = [op |-> "eliminar_favorito_especifico",
                                          id_usuario |-> u, id_cancion |-> c,
                                          id |-> 0]]
       ELSE \E f \in FavoritosDelPar(u, c) :
            /\ Goto(w, "eliminar_favorito_especifico_commit")
            /\ req' = [req EXCEPT ![w] = [op |-> "eliminar_favorito_especifico",
                                          id_usuario |-> u, id_cancion |-> c,
                                          id |-> f.id]]
    /\ UNCHANGED << tablas, now, threadpool >>

(* Mutant: the user of the favorite is deleted with it.                    *)
eliminar_favorito_con_usuario(w) ==
    /\ pc[w] = "eliminar_favorito_especifico_commit"
    /\ favorito' = {f \in favorito : f.id # req[w].id}
    /\ usuario' = {r \in usuario : r.id # req[w].id_usuario}
    /\ Finish(w, Response(204, None))
    /\ UNCHANGED << cancion, req, now, threadpool, quota >>

eliminar_favorito_especifico_commit(w) ==
    /\ pc[w] = "eliminar_favorito_especifico_commit"
    /\ favorito' = {f \in favorito : f.id # req[w].id}
    /\ Finish(w, Response(204, None))
    /\ UNCHANGED << usuario, cancion, req, now, threadpool, quota >>

(* --------------------------- lists and search -------------------------- *)

(* "if limit > 100: limit = 100"                                           *)
LimiteMaximo == 100

LimiteAplicado(limit) == IF limit > LimiteMaximo THEN LimiteMaximo ELSE limit

(* select(Model) without ORDER BY: SQLite scans the table by rowid, the    *)
(* primary key.                                                            *)
Ordenada(tabla) ==
    LET ids == {r.id : r \in tabla}
        EnTabla(i) == i \in ids
        orden == IF ids = {} THEN << >>
                 ELSE SelectSeq([i \in 1..Max(ids) |-> i], EnTabla)
    IN  [k \in 1..Len(orden) |-> CHOOSE r \in tabla : r.id = orden[k]]

(* .offset(skip): the parameter is bound as it is; SQLite takes a negative *)
(* OFFSET for 0.                                                           *)
Offset(filas, skip) ==
    IF skip <= 0 THEN filas
    ELSE IF skip >= Len(filas) THEN << >>
    ELSE SubSeq(filas, skip + 1, Len(filas))

(* .limit(limit): the parameter is bound as it is; SQLite takes a negative *)
(* LIMIT for no limit.                                                     *)
Limit(filas, limit) ==
    IF limit < 0 \/ limit >= Len(filas) THEN filas ELSE SubSeq(filas, 1, limit)

(* query.offset(skip).limit(limit), after the limit is capped.             *)
Paginar(filas, skip, limit) == Limit(Offset(filas, skip), LimiteAplicado(limit))

(* GET /api/usuarios                                                       *)
listar_usuarios(w, skip, limit) ==
    /\ Admit(w)
    /\ Finish(w, Response(200, Paginar(Ordenada(usuario), skip, limit)))
    /\ req' = [req EXCEPT ![w] = [op |-> "listar_usuarios", skip |-> skip,
                                  limit |-> limit]]
    /\ UNCHANGED << tablas, now, threadpool >>

(* GET /api/canciones                                                      *)
listar_canciones_resp(skip, limit) ==
    Response(200, Paginar(Ordenada(cancion), skip, limit))

listar_canciones(w, skip, limit) ==
    /\ Admit(w)
    /\ Finish(w, listar_canciones_resp(skip, limit))
    /\ req' = [req EXCEPT ![w] = [op |-> "listar_canciones", skip |-> skip,
                                  limit |-> limit]]
    /\ UNCHANGED << tablas, now, threadpool >>

(* GET /api/favoritos: the page of rows is selected.                       *)
listar_favoritos(w, skip, limit) ==
    /\ Admit(w)
    /\ Goto(w, "listar_favoritos_serializar")
    /\ req' = [req EXCEPT ![w] = [op |-> "listar_favoritos", skip |-> skip,
                                  limit |-> limit,
                                  filas |-> Paginar(Ordenada(favorito), skip, limit)]]
    /\ UNCHANGED << tablas, now, threadpool >>

(* Mutant: the serialization fails when a parent row is gone.              *)
listar_favoritos_estricto(w) ==
    /\ pc[w] = "listar_favoritos_serializar"
    /\ LET filas == req[w].filas
       IN  IF \E i \in 1..Len(filas) : \/ Get(usuario, filas[i].id_usuario) = None
                                       \/ Get(cancion, filas[i].id_cancion) = None
           THEN Finish(w, Error(500))
           ELSE Finish(w, Response(200, [i \in 1..Len(filas) |-> FavoritoRead(filas[i])]))
    /\ UNCHANGED << tablas, req, now, threadpool, quota >>

(* GET /api/favoritos: the rows are serialized as FavoritoRead, which      *)
(* loads the usuario and the cancion of each row from the store.           *)
listar_favoritos_serializar(w) ==
    /\ pc[w] = "listar_favoritos_serializar"
    /\ LET filas == req[w].filas
       IN  Finish(w, Response(200, [i \in 1..Len(filas) |-> FavoritoRead(filas[i])]))
    /\ UNCHANGED << tablas, req, now, threadpool, quota >>

(* FavoritoReadSimple: the row without its usuario and cancion.            *)
FavoritoReadSimple(f) ==
    [id |-> f.id, id_usuario |-> f.id_usuario, id_cancion |-> f.id_cancion,
     fecha_marcado |-> f.fecha_marcado]

(* GET /api/usuarios/{usuario_id}/favoritos, first statement: session.get. *)
listar_favoritos_usuario(w, id) ==
    /\ Admit(w)
    /\ IF Get(usuario, id) = None
       THEN Finish(w, Error(404))
       ELSE Goto(w, "listar_favoritos_usuario_serializar")
    /\ req' = [req EXCEPT ![w] = [op |-> "listar_favoritos_usuario", id |-> id,
                                  obj |-> Get(usuario, id)]]
    /\ UNCHANGED << tablas, now, threadpool >>

(* Mutant: the favorites of every user are listed.                         *)
listar_favoritos_usuario_todos(w) ==
    /\ pc[w] = "listar_favoritos_usuario_serializar"
    /\ LET u == req[w].obj[1]
           filas == Ordenada(favorito)
       IN  Finish(w, Response(200,
               Some([id |-> u.id, nombre |-> u.nombre, correo |-> u.correo,
                     fecha_registro |-> u.fecha_registro,
                     favoritos |-> [i \in 1..Len(filas) |->
                                       FavoritoReadSimple(filas[i])]])))
    /\ UNCHANGED << tablas, req, now, threadpool, quota >>

(* GET /api/usuarios/{usuario_id}/favoritos: the user is serialized as     *)
(* UsuarioConFavoritos, which loads usuario.favoritos from the store.      *)
listar_favoritos_usuario_serializar(w) ==
    /\ pc[w] = "listar_favoritos_usuario_serializar"
    /\ LET u == req[w].obj[1]
           filas == Ordenada(FavoritosDeUsuario(u.id))
       IN  Finish(w, Response(200,
               Some([id |-> u.id, nombre |-> u.nombre, correo |-> u.correo,
                     fecha_registro |-> u.fecha_registro,
                     favoritos |-> [i \in 1..Len(filas) |->
                                       FavoritoReadSimple(filas[i])]])))
    /\ UNCHANGED << tablas, req, now, threadpool, quota >>

(* A text is a sequence of characters.  lower() of SQLite folds the ASCII  *)
(* letters only.                                                           *)
LowerChar(ch) ==
    CASE ch = "A" -> "a"
      [] ch = "B" -> "b"
      [] OTHER -> ch

Lower(s) == [i \in 1..Len(s) |-> LowerChar(s[i])]

(* LIKE of SQLite: % stands for any text, _ for any one character; the     *)
(* handler escapes neither.                                                *)
RECURSIVE Like(_, _)
Like(s, patron) ==
    IF patron = << >> THEN s = << >>
    ELSE IF Head(patron) = "%"
    THEN Like(s, Tail(patron)) \/ (s # << >> /\ Like(Tail(s), patron))
    ELSE /\ s # << >>
         /\ Head(patron) = "_" \/ Head(patron) = Head(s)
         /\ Like(Tail(s), Tail(patron))

(* column.ilike(f"%{valor}%"), compiled for SQLite as                      *)
(* lower(column) LIKE lower(pattern).                                      *)
ILike(columna, valor) ==
    Like(Lower(columna), Lower(<< "%" >> \o valor \o << "%" >>))

(* "if titulo:" and "if año:": the truth value of the parameter, so that   *)
(* None, the empty text and 0 add no condition.                            *)
TextoSuministrado(p) == p # None /\ p[1] # << >>
AnioSuministrado(p) == p # None /\ p[1] # 0

(* The conjunction (and_) of the conditions that were appended.           *)
Conditions(c, titulo, artista, genero, anio) ==
    /\ TextoSuministrado(titulo) => ILike(c.titulo, titulo[1])
    /\ TextoSuministrado(artista) => ILike(c.artista, artista[1])
    /\ TextoSuministrado(genero) => ILike(c.genero, genero[1])
    /\ AnioSuministrado(anio) => c.anio = anio[1]

(* Mutant: the search does not cap its limit.                              *)
buscar_canciones_sin_tope(titulo, artista, genero, anio, skip, limit) ==
    Response(200, Limit(Offset(Ordenada({c \in cancion :
                                  Conditions(c, titulo, artista, genero, anio)}),
                               skip), limit))

(* GET /api/canciones/buscar                                               *)
buscar_canciones_resp(titulo, artista, genero, anio, skip, limit) ==
    Response(200, Paginar(Ordenada({c \in cancion :
                                       Conditions(c, titulo, artista, genero, anio)}),
                          skip, limit))

buscar_canciones(w, titulo, artista, genero, anio, skip, limit) ==
    /\ Admit(w)
    /\ Finish(w, buscar_canciones_resp(titulo, artista, genero, anio, skip, limit))
    /\ req' = [req EXCEPT ![w] = [op |-> "buscar_canciones", titulo |-> titulo,
                                  artista |-> artista, genero |-> genero,
                                  anio |-> anio, skip |-> skip, limit |-> limit]]
    /\ UNCHANGED << tablas, now, threadpool >>

(* ------------------------------ sessions ------------------------------- *)

(* get_session: the session is closed when the request ends, whatever its  *)
(* outcome; the worker is free again.                                      *)
cerrar_sesion(w) ==
    /\ pc[w] = "done"
    /\ pc' = [pc EXCEPT ![w] = "idle"]
    /\ req' = [req EXCEPT ![w] = NoReq]
    /\ resp' = [resp EXCEPT ![w] = NoResp]
    /\ UNCHANGED << tablas, now, threadpool, quota >>

(* Time passes.                                                            *)
Tick ==
    /\ now < MaxTime
    /\ now' = now + 1
    /\ UNCHANGED << tablas, pc, req, resp, threadpool, quota >>

(* ---------------------------- specifications --------------------------- *)
Vacio ==
    /\ usuario = {}
    /\ cancion = {}
    /\ favorito = {}
    /\ pc = [w \in Workers |-> "idle"]
    /\ req = [w \in Workers |-> NoReq]
    /\ resp = [w \in Workers |-> NoResp]
    /\ now = 1

(* The server (uvicorn) runs the handlers in a thread pool; the test       *)
(* client issues one request at a time.                                    *)
Init == Vacio /\ threadpool = TRUE /\ quota = -1
InitSerial == Vacio /\ threadpool = FALSE /\ quota = -1

(* A run of concurrent requests on favorites is explored up to MaxRequests *)
(* requests.                                                               *)
InitFavoritos == Vacio /\ threadpool = TRUE /\ quota = MaxRequests

(* The requests on users.                                                  *)
RequestsUsuarios(nombres, updates) ==
    \/ \E w \in Workers, nombre \in nombres, correo \in Correos :
           crear_usuario(w, nombre, correo)
    \/ \E w \in Workers, id \in UsuarioIds : obtener_usuario(w, id)
    \/ \E w \in Workers, id \in UsuarioIds, u \in updates :
           actualizar_usuario(w, id, u)
    \/ \E w \in Workers : actualizar_usuario_commit(w)
    \/ \E w \in Workers, id \in UsuarioIds : eliminar_usuario(w, id)
    \/ \E w \in Workers : eliminar_usuario_commit(w)
    \/ \E w \in Workers : eliminar_usuario_delete(w)
    \/ \E w \in Workers : cerrar_sesion(w)

NextUsuariosSerial == RequestsUsuarios(Nombres, UsuarioUpdates) \/ Tick
NextUsuarios == RequestsUsuarios({"Ana"}, {u \in UsuarioUpdates : DOMAIN u = {"correo"}})

SpecUsuarios == Init /\ [][NextUsuarios]_vars
SpecUsuariosSerial == InitSerial /\ [][NextUsuariosSerial]_vars

(* The requests on songs.                                                  *)
RequestsCanciones(creates, updates) ==
    \/ \E w \in Workers, c \in creates : crear_cancion(w, c)
    \/ \E w \in Workers, id \in CancionIds : obtener_cancion(w, id)
    \/ \E w \in Workers, id \in CancionIds, u \in updates :
           actualizar_cancion(w, id, u)
    \/ \E w \in Workers : actualizar_cancion_commit(w)
    \/ \E w \in Workers, id \in CancionIds : eliminar_cancion(w, id)
    \/ \E w \in Workers : eliminar_cancion_commit(w)
    \/ \E w \in Workers : eliminar_cancion_delete(w)
    \/ \E w \in Workers : cerrar_sesion(w)

NextCancionesSerial == RequestsCanciones(CancionCreates, CancionUpdates)

SpecCancionesSerial == InitSerial /\ [][NextCancionesSerial]_vars

(* The requests on favorites, with the requests that create and delete     *)
(* the users and songs they reference.                                     *)
RequestsFavoritos ==
    \/ \E w \in Workers, correo \in Correos : crear_usuario(w, "Ana", correo)
    \/ \E w \in Workers : crear_cancion(w, CancionTest)
    \/ \E w \in Workers, id \in UsuarioIds : eliminar_usuario(w, id)
    \/ \E w \in Workers : eliminar_usuario_commit(w)
    \/ \E w \in Workers : eliminar_usuario_delete(w)
    \/ \E w \in Workers, id \in CancionIds : eliminar_cancion(w, id)
    \/ \E w \in Workers : eliminar_cancion_commit(w)
    \/ \E w \in Workers : eliminar_cancion_delete(w)
    \/ \E w \in Workers, u \in UsuarioIds, c \in CancionIds : crear_favorito(w, u, c)
    \/ \E w \in Workers : crear_favorito_cancion(w)
    \/ \E w \in Workers : crear_favorito_existente(w)
    \/ \E w \in Workers : crear_favorito_commit(w)
    \/ \E w \in Workers : crear_favorito_refresh(w)
    \/ \E w \in Workers, u \in UsuarioIds, c \in CancionIds :
           marcar_favorito_especifico(w, u, c)
    \/ \E w \in Workers : marcar_favorito_especifico_cancion(w)
    \/ \E w \in Workers : marcar_favorito_especifico_existente(w)
    \/ \E w \in Workers : marcar_favorito_especifico_commit(w)
    \/ \E w \in Workers : marcar_favorito_especifico_refresh(w)
    \/ \E w \in Workers, id \in FavoritoIds : obtener_favorito(w, id)
    \/ \E w \in Workers, id \in FavoritoIds : eliminar_favorito(w, id)
    \/ \E w \in Workers : eliminar_favorito_commit(w)
    \/ \E w \in Workers, u \in UsuarioIds, c \in CancionIds :
           eliminar_favorito_especifico(w, u, c)
    \/ \E w \in Workers : eliminar_favorito_especifico_commit(w)
    \/ \E w \in Workers : cerrar_sesion(w)

Next == RequestsFavoritos
Spec == InitFavoritos /\ [][Next]_vars
SpecSerial == InitSerial /\ [][Next]_vars

(* The requests on songs whose año and duracion lie at the limits of the   *)
(* validators, in a year before, at and after the upper limit of año.      *)
Anios == {1899, 1900, AnioEnCurso, AnioEnCurso + 1, 2100, 2101}
Duraciones == {-1, 0, 1, 3599, 3600}

CancionCreatesLimite ==
    {[CancionTest EXCEPT !.anio = a] : a \in Anios}
        \cup {[CancionTest EXCEPT !.duracion = d] : d \in Duraciones}

CancionUpdatesLimite ==
    {[f \in {"anio"} |-> Some(a)] : a \in Anios}
        \cup {[f \in {"duracion"} |-> Some(d)] : d \in Duraciones}

InitValidacion ==
    /\ usuario = {}
    /\ cancion = {}
    /\ favorito = {}
    /\ pc = [w \in Workers |-> "idle"]
    /\ req = [w \in Workers |-> NoReq]
    /\ resp = [w \in Workers |-> NoResp]
    /\ now \in {1, 2100 - AnioBase, 2101 - AnioBase}
    /\ threadpool = FALSE
    /\ quota = -1

NextValidacion == RequestsCanciones(CancionCreatesLimite, CancionUpdatesLimite) \/ Tick

SpecValidacion == InitValidacion /\ [][NextValidacion]_vars

(* The list endpoints and the search without filters, on a store that is  *)
(* empty, holds two rows whose ids are not contiguous, or holds one row    *)
(* more than the largest page.                                             *)
Poblaciones == { {}, {1, 3}, 1..(LimiteMaximo + 1) }

UsuariosIniciales(ids) ==
    {[id |-> i, nombre |-> "Ana", correo |-> ToString(i) \o "@x.com",
      fecha_registro |-> 1] : i \in ids}

CancionesIniciales(ids) ==
    {[id |-> i, titulo |-> CancionTest.titulo, artista |-> CancionTest.artista,
      album |-> CancionTest.album, duracion |-> CancionTest.duracion,
      anio |-> CancionTest.anio, genero |-> CancionTest.genero,
      fecha_creacion |-> 1] : i \in ids}

FavoritosIniciales(ids) ==
    {[id |-> i, id_usuario |-> i, id_cancion |-> i, fecha_marcado |-> 1] : i \in ids}

Skips == {-1, 0, 1, 2, LimiteMaximo}
Limits == {-1, 0, 1, LimiteMaximo, LimiteMaximo + 1, 1000}

InitListado ==
    /\ \E ids \in Poblaciones :
          /\ usuario = UsuariosIniciales(ids)
          /\ cancion = CancionesIniciales(ids)
          /\ favorito = FavoritosIniciales(ids)
    /\ pc = [w \in Workers |-> "idle"]
    /\ req = [w \in Workers |-> NoReq]
    /\ resp = [w \in Workers |-> NoResp]
    /\ now = 1
    /\ threadpool = FALSE
    /\ quota = -1

NextListado ==
    \/ \E w \in Workers, skip \in Skips, limit \in Limits :
           listar_usuarios(w, skip, limit)
    \/ \E w \in Workers, skip \in Skips, limit \in Limits :
           listar_canciones(w, skip, limit)
    \/ \E w \in Workers, skip \in Skips, limit \in Limits :
           listar_favoritos(w, skip, limit)
    \/ \E w \in Workers : listar_favoritos_serializar(w)
    \/ \E w \in Workers, skip \in Skips, limit \in Limits :
           buscar_canciones(w, None, None, None, None, skip, limit)
    \/ \E w \in Workers : cerrar_sesion(w)

SpecListado == InitListado /\ [][NextListado]_vars

(* The search with filters, on two stored songs whose texts are written    *)
(* out as sequences of characters: letters in both cases, a letter outside *)
(* ASCII in both cases, and the two wildcards of LIKE.                     *)
Caracteres == {"a", "A", "b", "_", "%", "é", "É"}
Patrones == {<< >>} \cup {<< x >> : x \in Caracteres}
                \cup {<< x, y >> : x \in Caracteres, y \in Caracteres}
TitulosGuardados == {<< "A", "b", "a" >>, << "a", "_", "b" >>, << "É", "a" >>,
                     << "b", "%" >>}

CancionesGuardadas(t) ==
    { [id |-> 1, titulo |-> t, artista |-> << "A", "b" >>, album |-> << "a" >>,
       duracion |-> 355, anio |-> 1975, genero |-> << "b", "a" >>,
       fecha_creacion |-> 1],
      [id |-> 2, titulo |-> << "b" >>, artista |-> << "b", "a" >>,
       album |-> << "a" >>, duracion |-> 240, anio |-> 2020,
       genero |-> << "b", "a" >>, fecha_creacion |-> 1] }

AniosBuscados == {0, 1975, 1999}

InitBusqueda ==
    /\ usuario = {}
    /\ \E t \in TitulosGuardados : cancion = CancionesGuardadas(t)
    /\ favorito = {}
    /\ pc = [w \in Workers |-> "idle"]
    /\ req = [w \in Workers |-> NoReq]
    /\ resp = [w \in Workers |-> NoResp]
    /\ now = 1
    /\ threadpool = FALSE
    /\ quota = -1

NextBusqueda ==
    \/ \E w \in Workers, titulo \in Opt(Patrones), artista \in Opt({<< "B" >>}),
          genero \in Opt({<< "a" >>}), anio \in Opt(AniosBuscados),
          skip \in {0, 1}, limit \in {1, LimiteMaximo} :
           buscar_canciones(w, titulo, artista, genero, anio, skip, limit)
    \/ \E w \in Workers : cerrar_sesion(w)

SpecBusqueda == InitBusqueda /\ [][NextBusqueda]_vars

(* The requests on the three entities, with the reads of users and songs,  *)
(* served concurrently.                                                    *)
NextCrud ==
    \/ RequestsFavoritos
    \/ \E w \in Workers, id \in UsuarioIds : obtener_usuario(w, id)
    \/ \E w \in Workers, id \in CancionIds : obtener_cancion(w, id)

SpecCrud == InitFavoritos /\ [][NextCrud]_vars

(* The requests on favorites and their parents, with the two listings of   *)
(* favorites, served concurrently.                                         *)
NextLecturas ==
    \/ RequestsFavoritos
    \/ \E w \in Workers : listar_favoritos(w, 0, LimiteMaximo)
    \/ \E w \in Workers : listar_favoritos_serializar(w)
    \/ \E w \in Workers, id \in UsuarioIds : listar_favoritos_usuario(w, id)
    \/ \E w \in Workers : listar_favoritos_usuario_serializar(w)

SpecLecturas == InitFavoritos /\ [][NextLecturas]_vars

(* The requests on the three entities, updates included, served one at a   *)
(* time while time passes; a run is explored up to MaxRequests requests.   *)
InitTodo == Vacio /\ threadpool = FALSE /\ quota = MaxRequests

NextTodo ==
    \/ RequestsUsuarios({"Ana"}, UsuarioUpdates)
    \/ RequestsCanciones({CancionTest}, CancionUpdates)
    \/ RequestsFavoritos
    \/ Tick

SpecTodoSerial == InitTodo /\ [][NextTodo]_vars

(* ------------------------------- claims -------------------------------- *)
CrearFavoritoOps == {"crear_favorito", "marcar_favorito_especifico"}

(* The request of worker w creates a favorite.                             *)
CreaFavorito(w) == req[w].op \in CrearFavoritoOps

Done(w, status) == pc[w] = "done" /\ resp[w].status = status

(* C1: requests served one after the other.  A favorite creation, through  *)
(* either route, for a stored user and a stored song succeeds (201) when   *)
(* the pair is not stored and then leaves exactly one row of the pair, its *)
(* own; a creation for a pair that is already stored never reaches the     *)
(* insert and ends with 400, the pair still stored exactly once.  So two   *)
(* successive creations of a pair answer 201 and then 400 and leave one    *)
(* row.                                                                    *)
C1_CrearDosVeces ==
    \A w \in Workers : CreaFavorito(w) =>
        LET par == FavoritosDelPar(req[w].id_usuario, req[w].id_cancion)
            op == req[w].op
        IN  /\ pc[w] = "done" => resp[w].status \in {201, 400, 404}
            /\ Done(w, 404) => \/ Get(usuario, req[w].id_usuario) = None
                               \/ Get(cancion, req[w].id_cancion) = None
            /\ Done(w, 201) => par = {f \in favorito : f.id = req[w].id}
                               /\ Cardinality(par) = 1
            /\ Done(w, 400) => Cardinality(par) = 1 /\ req[w].id = 0
            /\ (\E f \in par : f.id # req[w].id) =>
                   \/ pc[w] \in {op \o "_cancion", op \o "_existente"}
                   \/ Done(w, 400)

C1_Witness ==
    /\ CreaFavorito(1)
    /\ Done(1, 400)
    /\ Cardinality(FavoritosDelPar(req[1].id_usuario, req[1].id_cancion)) = 1

(* C2: in every reachable state of concurrently served requests no two     *)
(* rows of favorito share (id_usuario, id_cancion).                        *)
C2_ParUnico ==
    \A f, g \in favorito :
        (f.id_usuario = g.id_usuario /\ f.id_cancion = g.id_cancion) => f = g

(* C3: a creation that passed the pre-check and whose insert comes second, *)
(* a row of its pair being stored by then, inserts nothing and ends with   *)
(* 400.                                                                    *)
C3_SegundoInsertConflict ==
    [][\A w \in Workers :
          ( /\ CreaFavorito(w)
            /\ pc[w] = req[w].op \o "_commit"
            /\ pc'[w] # pc[w]
            /\ FavoritosDelPar(req[w].id_usuario, req[w].id_cancion) # {} )
          => (favorito' = favorito /\ pc'[w] = "done" /\ resp'[w].status = 400)]_vars

(* C4: deleting a stored user answers 204 whatever favorites reference it, *)
(* and afterwards the user and each of those favorites are fetched as 404. *)
C4_EliminarUsuarioCascada ==
    [][\A w \in Workers :
          (pc[w] \in {"eliminar_usuario_commit", "eliminar_usuario_delete"}
           /\ pc'[w] = "done"
           /\ Get(usuario, req[w].id) # None)
          => /\ resp'[w].status = 204
             /\ obtener_usuario_resp(req[w].id)'.status = 404
             /\ \A f \in FavoritosDeUsuario(req[w].id) :
                    obtener_favorito_resp(f.id)'.status = 404]_vars

(* C5: deleting a stored song that a favorite references answers 204 and   *)
(* removes the song and every favorite of it, which is then fetched as 404.*)
C5_EliminarCancionCascada ==
    [][\A w \in Workers :
          (pc[w] \in {"eliminar_cancion_commit", "eliminar_cancion_delete"}
           /\ pc'[w] = "done"
           /\ Get(cancion, req[w].id) # None
           /\ FavoritosDeCancion(req[w].id) # {})
          => /\ resp'[w].status = 204
             /\ obtener_cancion_resp(req[w].id)'.status = 404
             /\ \A f \in FavoritosDeCancion(req[w].id) :
                    obtener_favorito_resp(f.id)'.status = 404]_vars

(* Worker w takes a step of the request named op.                          *)
Paso(w, op) == pc'[w] # pc[w] /\ req'[w].op = op

(* C6: a favorite creation, through either route, whose user is not stored *)
(* when it is looked up, or whose song is not, ends there with 404; no     *)
(* step of a creation before its insert writes anything, and a creation    *)
(* answers 404 only for a missing user or song.                            *)
C6_NotFoundSinEscritura ==
    [][\A w \in Workers : \A op \in CrearFavoritoOps : Paso(w, op) =>
          LET u == req'[w].id_usuario
              c == req'[w].id_cancion
          IN  /\ pc[w] # op \o "_commit" => tablas' = tablas
              /\ (pc[w] = "idle" /\ Get(usuario, u) = None) =>
                     (pc'[w] = "done" /\ resp'[w].status = 404)
              /\ (pc[w] = op \o "_cancion" /\ Get(cancion, c) = None) =>
                     (pc'[w] = "done" /\ resp'[w].status = 404)
              /\ (pc'[w] = "done" /\ resp'[w].status = 404) =>
                     \/ pc[w] = "idle" /\ Get(usuario, u) = None
                     \/ pc[w] = op \o "_cancion" /\ Get(cancion, c) = None]_vars

C6_Witness ==
    /\ CreaFavorito(1)
    /\ Done(1, 404)
    /\ Get(usuario, req[1].id_usuario) # None
    /\ Get(cancion, req[1].id_cancion) = None
    /\ favorito # {}

(* C7: creating a user with the correo of a stored user answers 400 and    *)
(* leaves the users as they were; with a correo that is not stored it      *)
(* answers 201 and adds exactly one row, with a new id, the nombre and     *)
(* correo of the request and the current time as fecha_registro.           *)
C7_CrearUsuario ==
    [][\A w \in Workers : (pc[w] = "idle" /\ Paso(w, "crear_usuario")) =>
          IF \E r \in usuario : r.correo = req'[w].correo
          THEN resp'[w].status = 400 /\ usuario' = usuario
          ELSE /\ resp'[w].status = 201
               /\ \E fila \in usuario' :
                      /\ usuario' = usuario \cup {fila}
                      /\ fila.id \notin {r.id : r \in usuario}
                      /\ fila.nombre = req'[w].nombre
                      /\ fila.correo = req'[w].correo
                      /\ fila.fecha_registro = now
                      /\ resp'[w].body = Some(fila)]_vars

C7_Witness ==
    /\ req[1].op = "crear_usuario"
    /\ Done(1, 400)
    /\ \E r \in usuario : r.correo = req[1].correo /\ r.fecha_registro # now

(* C8: under any interleaving of the requests on users no two stored       *)
(* users have the same correo; an update whose UPDATE sets the correo of   *)
(* a stored user (the supplied correo differs from the one the handler     *)
(* loaded) to the correo of another stored user answers 400 and leaves     *)
(* the users unchanged.                                                    *)
CorreosUnicos == \A r, q \in usuario : r.correo = q.correo => r = q

ParcialmenteActualizada(antes, despues, data) ==
    \A f \in DOMAIN antes :
        Some(despues[f]) = IF f \in DOMAIN data THEN data[f] ELSE Some(antes[f])

(* C9: requests served one after the other.  An update of a user that is   *)
(* not stored answers 404 and changes nothing.  An update of a stored      *)
(* user succeeds (200) when it supplies no null and no correo of another   *)
(* user; when it succeeds the row has the supplied fields at the supplied  *)
(* values and every other field, id and fecha_registro included, as        *)
(* before, and the other rows are unchanged; when it fails nothing         *)
(* changes.                                                                *)
C9_ActualizarUsuarioParcial ==
    [][\A w \in Workers : Paso(w, "actualizar_usuario") =>
          LET id == req'[w].id
              data == req'[w].data
              antes == Get(usuario, id)
              despues == Get(usuario', id)
          IN  /\ pc[w] = "idle" =>
                    /\ usuario' = usuario
                    /\ antes = None => (pc'[w] = "done" /\ resp'[w].status = 404)
                    /\ antes # None => pc'[w] = "actualizar_usuario_commit"
              /\ pc[w] = "actualizar_usuario_commit" =>
                    /\ pc'[w] = "done"
                    /\ ( /\ \A f \in DOMAIN data : data[f] # None
                         /\ ~ \E r \in usuario : /\ r.id # id
                                                   /\ "correo" \in DOMAIN data
                                                   /\ Some(r.correo) = data["correo"] )
                       => resp'[w].status = 200
                    /\ IF resp'[w].status = 200
                       THEN /\ despues # None
                            /\ ParcialmenteActualizada(antes[1], despues[1], data)
                            /\ {r \in usuario' : r.id # id} = {r \in usuario : r.id # id}
                       ELSE usuario' = usuario]_vars

C9_Witness ==
    /\ req[1].op = "actualizar_usuario"
    /\ Done(1, 200)
    /\ DOMAIN req[1].data = {"nombre"}
    /\ \E r \in usuario : /\ r.id = req[1].id
                            /\ Some(r.nombre) = req[1].data["nombre"]
                            /\ r.nombre # req[1].obj[1].nombre
                            /\ r.correo = req[1].obj[1].correo
                            /\ r.fecha_registro # now
    /\ Cardinality(usuario) = 2

(* C10: requests served one after the other.  A valid update of a song     *)
(* that is not stored answers 404.  An update of a stored song that        *)
(* supplies no null succeeds (200); when it succeeds the song has the      *)
(* supplied fields at the supplied values and every other field as         *)
(* before, and every other song is unchanged; when it fails nothing        *)
(* changes.                                                                *)
C10_ActualizarCancionParcial ==
    [][\A w \in Workers : Paso(w, "actualizar_cancion") =>
          LET id == req'[w].id
              data == req'[w].data
              antes == Get(cancion, id)
              despues == Get(cancion', id)
          IN  /\ pc[w] = "idle" =>
                    /\ cancion' = cancion
                    /\ (CancionUpdateValida(data) /\ antes = None) =>
                           (pc'[w] = "done" /\ resp'[w].status = 404)
                    /\ (CancionUpdateValida(data) /\ antes # None) =>
                           pc'[w] = "actualizar_cancion_commit"
              /\ pc[w] = "actualizar_cancion_commit" =>
                    /\ pc'[w] = "done"
                    /\ (\A f \in DOMAIN data : data[f] # None) => resp'[w].status = 200
                    /\ IF resp'[w].status = 200
                       THEN /\ despues # None
                            /\ ParcialmenteActualizada(antes[1], despues[1], data)
                            /\ {r \in cancion' : r.id # id} = {r \in cancion : r.id # id}
                       ELSE cancion' = cancion]_vars

C10_Witness ==
    /\ req[1].op = "actualizar_cancion"
    /\ Done(1, 200)
    /\ DOMAIN req[1].data = {"titulo", "genero"}
    /\ Cardinality(cancion) = 2
    /\ \E r \in cancion : /\ r.id = req[1].id
                            /\ r.titulo = CancionActualizada.titulo
                            /\ r.genero = CancionActualizada.genero
                            /\ r.artista = CancionTest.artista
                            /\ r.duracion = CancionTest.duracion
    /\ \E r \in cancion : r.id # req[1].id /\ r.album = CancionActualizada.album

MinDe(a, b) == IF a <= b THEN a ELSE b

(* C11: a song creation, and a song update that supplies año, is rejected  *)
(* (422) with nothing written when año is later than the current year or   *)
(* outside 1900..2100, and is not rejected for its año when año lies in    *)
(* 1900..min(current year, 2100); no row is ever written with an año later *)
(* than the year in which it is written.                                   *)
C11_AnioNoFuturo ==
    [][/\ \A w \in Workers :
            /\ Paso(w, "crear_cancion") =>
                  LET c == req'[w].data
                  IN  /\ (c.anio > AnioEnCurso \/ c.anio < 1900 \/ c.anio > 2100) =>
                             (resp'[w].status = 422 /\ cancion' = cancion)
                      /\ (/\ c.anio >= 1900
                          /\ c.anio <= MinDe(AnioEnCurso, 2100)
                          /\ c.duracion \in 1..3599) =>
                             /\ resp'[w].status = 201
                             /\ \E r \in cancion' \ cancion : r.anio = c.anio
            /\ (/\ Paso(w, "actualizar_cancion")
                /\ pc[w] = "idle"
                /\ "anio" \in DOMAIN req'[w].data
                /\ req'[w].data["anio"] # None) =>
                  LET a == req'[w].data["anio"][1]
                  IN  /\ (a > AnioEnCurso \/ a < 1900 \/ a > 2100) =>
                             (pc'[w] = "done" /\ resp'[w].status = 422
                                 /\ cancion' = cancion)
                      /\ (/\ a >= 1900
                          /\ a <= MinDe(AnioEnCurso, 2100)
                          /\ DOMAIN req'[w].data = {"anio"}) =>
                             ~(pc'[w] = "done" /\ resp'[w].status = 422)
       /\ \A r \in cancion' \ cancion : r.anio <= AnioEnCurso']_vars

(* A creation with next year's año was rejected while a song with this     *)
(* year's año, accepted earlier, is stored.                                *)
C11_Witness ==
    /\ req[1].op = "crear_cancion"
    /\ Done(1, 422)
    /\ req[1].data.anio = AnioEnCurso + 1
    /\ \E r \in cancion : r.anio = AnioEnCurso

C13_ViolacionesCapturadas ==
    \A w \in Workers : pc[w] = "done" => resp[w].status # 500

ListOps == {"listar_usuarios", "listar_canciones", "listar_favoritos",
            "buscar_canciones"}

(* C14: every list and search request is answered (200) with at most 100   *)
(* rows and, for a limit that is not negative, with at most limit rows,    *)
(* whatever skip and limit are.                                            *)
C14_LimiteMaximo ==
    \A w \in Workers : (pc[w] = "done" /\ req[w].op \in ListOps) =>
        /\ resp[w].status = 200
        /\ Len(resp[w].body) <= LimiteMaximo
        /\ req[w].limit >= 0 => Len(resp[w].body) <= req[w].limit

(* The rows of filas at the positions desde .. hasta - 1, counted from 0.  *)
Rebanada(filas, desde, hasta) ==
    LET a == IF desde < 0 THEN 0 ELSE desde
        b == MinDe(hasta, Len(filas))
    IN  IF b <= a THEN << >> ELSE SubSeq(filas, a + 1, b)

(* C15: the list of users is the slice [skip, skip + min(limit, 100)) of   *)
(* the stored users in the order of their ids.                             *)
C15_ListarUsuarios ==
    \A w \in Workers : (pc[w] = "done" /\ req[w].op = "listar_usuarios") =>
        resp[w].body = Rebanada(Ordenada(usuario), req[w].skip,
                                req[w].skip + MinDe(req[w].limit, LimiteMaximo))

C16_BuscarConjuncion ==
    \A w \in Workers : (pc[w] = "done" /\ req[w].op = "buscar_canciones") =>
        LET r == req[w]
            Cumple(c) ==
                /\ r.titulo # None => ILike(c.titulo, r.titulo[1])
                /\ r.artista # None => ILike(c.artista, r.artista[1])
                /\ r.genero # None => ILike(c.genero, r.genero[1])
                /\ r.anio # None => c.anio = r.anio[1]
        IN  resp[w].body =
                Paginar(Ordenada({c \in cancion : Cumple(c)}), r.skip, r.limit)

(* Letter case folded for every letter.                                    *)
SinCaja(s) ==
    [i \in 1..Len(s) |-> IF s[i] = "É" THEN "é" ELSE LowerChar(s[i])]

(* valor occurs in texto as a contiguous run of characters.                *)
Contiene(texto, valor) ==
    \E i \in 0..(Len(texto) - Len(valor)) :
        \A k \in 1..Len(valor) : texto[i + k] = valor[k]

(* C18: a search by titulo, artista or genero returns a stored song        *)
(* exactly when each supplied text occurs in the stored field as a         *)
(* contiguous substring, letter case disregarded.                          *)
C18_SubcadenaSinCaja ==
    \A w \in Workers :
        (pc[w] = "done" /\ req[w].op = "buscar_canciones" /\ req[w].anio = None) =>
            LET r == req[w]
                Cumple(c) ==
                    /\ r.titulo # None =>
                           Contiene(SinCaja(c.titulo), SinCaja(r.titulo[1]))
                    /\ r.artista # None =>
                           Contiene(SinCaja(c.artista), SinCaja(r.artista[1]))
                    /\ r.genero # None =>
                           Contiene(SinCaja(c.genero), SinCaja(r.genero[1]))
            IN  resp[w].body =
                    Paginar(Ordenada({c \in cancion : Cumple(c)}), r.skip, r.limit)

(* C19: requests served one after the other.  The body route and the path  *)
(* route of favorite creation have the same outcome for the same store and *)
(* the same (id_usuario, id_cancion): 404 when the user is not stored,     *)
(* else 404 when the song is not stored, else 400 when the pair is stored, *)
(* else 201 with the new row of the pair as the only change of the store.  *)
C19_RutasEquivalentes ==
    [][\A w \in Workers : \A op \in CrearFavoritoOps : Paso(w, op) =>
          LET u == req'[w].id_usuario
              c == req'[w].id_cancion
              fila == Get(favorito', req'[w].id)
          IN  /\ usuario' = usuario /\ cancion' = cancion
              /\ IF pc[w] = op \o "_commit"
                 THEN /\ FavoritosDelPar(u, c) = {}
                      /\ fila # None
                      /\ fila[1].id_usuario = u /\ fila[1].id_cancion = c
                      /\ favorito' = favorito \cup {fila[1]}
                 ELSE favorito' = favorito
              /\ pc'[w] = "done" =>
                    IF Get(usuario, u) = None THEN resp'[w] = Error(404)
                    ELSE IF Get(cancion, c) = None THEN resp'[w] = Error(404)
                    ELSE IF req'[w].id = 0
                    THEN resp'[w] = Error(400) /\ FavoritosDelPar(u, c) # {}
                    ELSE /\ FavoritosDelPar(u, c) = {fila[1]}
                         /\ resp'[w] = Response(201, Some(FavoritoRead(fila[1])))]_vars

(* The path route created the second favorite of the store.                *)
C19_Witness ==
    /\ req[1].op = "marcar_favorito_especifico"
    /\ Done(1, 201)
    /\ Cardinality(favorito) = 2
    /\ resp[1].body[1].id = 2
    /\ resp[1].body[1].usuario # None

(* C20: a deletion by (id_usuario, id_cancion) answers 404 and changes     *)
(* nothing when no favorite of the pair is stored; otherwise it removes a  *)
(* favorite of the pair and nothing else, answers 204, and leaves no       *)
(* favorite of the pair, so that repeating it answers 404.                 *)
C20_EliminarEspecifico ==
    [][\A w \in Workers : Paso(w, "eliminar_favorito_especifico") =>
          LET u == req'[w].id_usuario
              c == req'[w].id_cancion
          IN  /\ pc[w] = "idle" =>
                    /\ favorito' = favorito
                    /\ IF FavoritosDelPar(u, c) = {}
                       THEN pc'[w] = "done" /\ resp'[w].status = 404
                       ELSE pc'[w] = "eliminar_favorito_especifico_commit"
              /\ pc[w] = "eliminar_favorito_especifico_commit" =>
                    /\ pc'[w] = "done" /\ resp'[w].status = 204
                    /\ favorito' \subseteq favorito
                    /\ favorito \ favorito' \subseteq FavoritosDelPar(u, c)
                    /\ \A f \in favorito' : ~(f.id_usuario = u /\ f.id_cancion = c)]_vars

(* The table of the entity that the request named op reads or deletes.     *)
TablaDe(op) ==
    CASE op \in {"obtener_usuario", "eliminar_usuario"} -> usuario
      [] op \in {"obtener_cancion", "eliminar_cancion"} -> cancion
      [] op \in {"obtener_favorito", "eliminar_favorito"} -> favorito

GetOps == {"obtener_usuario", "obtener_cancion", "obtener_favorito"}
DeleteOps == {"eliminar_usuario", "eliminar_cancion", "eliminar_favorito"}

(* C21: for each entity, a get or a delete of an id that is not stored     *)
(* when the request reads it answers 404 and changes nothing; when a       *)
(* delete answers 204 the id is not stored; and an id that is not stored   *)
(* becomes stored only by the insert of a creation.  So after a delete     *)
(* answered 204 every get and delete of the id answers 404 until a row is  *)
(* created with the id.                                                    *)
C21_NotFoundTrasEliminar ==
    [][/\ \A w \in Workers : \A op \in GetOps \cup DeleteOps :
            Paso(w, op) =>
               /\ (pc[w] = "idle" /\ Get(TablaDe(op), req'[w].id) = None) =>
                     /\ pc'[w] = "done"
                     /\ resp'[w] = Error(404)
                     /\ tablas' = tablas
               /\ (pc[w] = "idle" /\ Get(TablaDe(op), req'[w].id) # None) =>
                     ~(pc'[w] = "done" /\ resp'[w].status = 404)
               /\ (pc'[w] = "done" /\ resp'[w].status = 204) =>
                     Get(TablaDe(op)', req'[w].id) = None
       /\ \A id \in UsuarioIds :
            (Get(usuario, id) = None /\ Get(usuario', id) # None) =>
                \E w \in Workers : Paso(w, "crear_usuario")
       /\ \A id \in CancionIds :
            (Get(cancion, id) = None /\ Get(cancion', id) # None) =>
                \E w \in Workers : Paso(w, "crear_cancion")
       /\ \A id \in FavoritoIds :
            (Get(favorito, id) = None /\ Get(favorito', id) # None) =>
                \E w \in Workers : \E op \in CrearFavoritoOps :
                    Paso(w, op) /\ pc[w] = op \o "_commit"]_vars

(* A favorite was deleted (204) and a get of its id, served before the     *)
(* deleting session was closed, answered 404.                              *)
C21_Witness ==
    /\ req[1].op = "eliminar_favorito" /\ Done(1, 204)
    /\ req[2].op = "obtener_favorito" /\ Done(2, 404)
    /\ req[2].id = req[1].id

(* C22: the favorites of a user.  The request answers 404 when the user is *)
(* not stored; otherwise it answers 200 with the user and a list that      *)
(* holds each stored favorite whose id_usuario is the user's id once, and  *)
(* nothing else; the request writes nothing.                               *)
C22_FavoritosDelUsuario ==
    [][\A w \in Workers : Paso(w, "listar_favoritos_usuario") =>
          LET id == req'[w].id
          IN  /\ tablas' = tablas
              /\ pc[w] = "idle" =>
                    IF Get(usuario, id) = None
                    THEN pc'[w] = "done" /\ resp'[w] = Error(404)
                    ELSE pc'[w] = "listar_favoritos_usuario_serializar"
              /\ pc[w] = "listar_favoritos_usuario_serializar" =>
                    /\ pc'[w] = "done" /\ resp'[w].status = 200
                    /\ resp'[w].body[1].id = id
                    /\ LET lista == resp'[w].body[1].favoritos
                       IN  /\ {lista[i] : i \in 1..Len(lista)} =
                                {FavoritoReadSimple(f) : f \in FavoritosDeUsuario(id)}
                           /\ Len(lista) = Cardinality(FavoritosDeUsuario(id))]_vars

(* One user, one song and one favorite of them are stored, and the list of *)
(* the user's favorites has the one entry, which references the song.      *)
C22_Witness ==
    /\ req[1].op = "listar_favoritos_usuario"
    /\ Done(1, 200)
    /\ Cardinality(usuario) = 1 /\ Cardinality(cancion) = 1
    /\ Cardinality(favorito) = 1
    /\ Len(resp[1].body[1].favoritos) = 1
    /\ \E c \in cancion : resp[1].body[1].favoritos[1].id_cancion = c.id

(* C23: with requests interleaved, the listing of favorites always answers *)
(* 200 with one entry for each row it selected; the entry of a row whose   *)
(* user or song is not stored when the entry is built has that nested      *)
(* field absent, and otherwise carries the stored parent.                  *)
C23_ListarConPadresAusentes ==
    [][\A w \in Workers : Paso(w, "listar_favoritos") =>
          /\ tablas' = tablas
          /\ pc[w] = "idle" => pc'[w] = "listar_favoritos_serializar"
          /\ pc[w] = "listar_favoritos_serializar" =>
                LET filas == req[w].filas
                    lista == resp'[w].body
                IN  /\ pc'[w] = "done" /\ resp'[w].status = 200
                    /\ Len(lista) = Len(filas)
                    /\ \A i \in 1..Len(filas) :
                          /\ lista[i].id = filas[i].id
                          /\ lista[i].usuario = Get(usuario, filas[i].id_usuario)
                          /\ lista[i].cancion = Get(cancion, filas[i].id_cancion)]_vars

(* The listing answered 200 with a favorite whose user was deleted while   *)
(* the favorite was being created: its usuario is absent, its cancion is   *)
(* not.                                                                    *)
C23_Witness ==
    \E w \in Workers :
        /\ req[w].op = "listar_favoritos"
        /\ Done(w, 200)
        /\ Len(resp[w].body) = 1
        /\ resp[w].body[1].usuario = None
        /\ resp[w].body[1].cancion # None

(* C24: a delete of a user or of a song removes no favorite, and when a    *)
(* delete that found its row ends, either the row is gone and no stored    *)
(* favorite references it, or the row is stored as before.                 *)
C24_EliminarTodoONada ==
    [][\A w \in Workers :
          /\ Paso(w, "eliminar_usuario") =>
                /\ favorito' = favorito
                /\ (pc[w] # "idle" /\ pc'[w] = "done") =>
                      IF Get(usuario', req[w].id) = None
                      THEN \A f \in favorito' : f.id_usuario # req[w].id
                      ELSE usuario' = usuario
          /\ Paso(w, "eliminar_cancion") =>
                /\ favorito' = favorito
                /\ (pc[w] # "idle" /\ pc'[w] = "done") =>
                      IF Get(cancion', req[w].id) = None
                      THEN \A f \in favorito' : f.id_cancion # req[w].id
                      ELSE cancion' = cancion]_vars

(* C25: a request that ends with a failure response has committed no       *)
(* write: the step that ends it writes nothing and, for a creation of a    *)
(* favorite, no earlier step of the request inserted a row.                *)
C25_FalloSinEscritura ==
    [][\A w \in Workers :
          (pc[w] # "done" /\ pc'[w] = "done" /\ resp'[w].status >= 400) =>
              /\ tablas' = tablas
              /\ req'[w].op \in CrearFavoritoOps => req'[w].id = 0]_vars

(* C26: every stored favorite references a stored user and a stored song. *)
C26_IntegridadReferencial ==
    \A f \in favorito :
        Get(usuario, f.id_usuario) # None /\ Get(cancion, f.id_cancion) # None

(* The ids of a table with the creation timestamp of each.                 *)
Creados(tabla, fecha) == {<< r.id, r[fecha] >> : r \in tabla}

(* C27: no step of an update of a user changes the id or fecha_registro of *)
(* any user, or any song or favorite; no step of an update of a song       *)
(* changes the id or fecha_creacion of any song, or any user or favorite;  *)
(* a deletion of a favorite, by id or by pair, changes no user and no      *)
(* song and removes no favorite but the one it names.                      *)
C27_CamposInmutables ==
    [][\A w \in Workers :
          /\ Paso(w, "actualizar_usuario") =>
                /\ Creados(usuario', "fecha_registro") =
                       Creados(usuario, "fecha_registro")
                /\ Cardinality(usuario') = Cardinality(usuario)
                /\ cancion' = cancion /\ favorito' = favorito
          /\ Paso(w, "actualizar_cancion") =>
                /\ Creados(cancion', "fecha_creacion") =
                       Creados(cancion, "fecha_creacion")
                /\ Cardinality(cancion') = Cardinality(cancion)
                /\ usuario' = usuario /\ favorito' = favorito
          /\ Paso(w, "eliminar_favorito") =>
                /\ usuario' = usuario /\ cancion' = cancion
                /\ favorito' \subseteq favorito
                /\ \A f \in favorito \ favorito' : f.id = req'[w].id
          /\ Paso(w, "eliminar_favorito_especifico") =>
                /\ usuario' = usuario /\ cancion' = cancion
                /\ favorito' \subseteq favorito
                /\ Cardinality(favorito \ favorito') <= 1
                /\ \A f \in favorito \ favorito' :
                      /\ f.id_usuario = req'[w].id_usuario
                      /\ f.id_cancion = req'[w].id_cancion]_vars

(* A song created at an earlier time was updated (200) and keeps its       *)
(* fecha_creacion, while a favorite of another pair is stored.             *)
C27_Witness ==
    /\ req[1].op = "actualizar_cancion"
    /\ Done(1, 200)
    /\ \E r \in cancion : /\ r.id = req[1].id
                          /\ r.titulo = CancionActualizada.titulo
                          /\ r.fecha_creacion < now
    /\ favorito # {}
====
